---- MODULE Spec2Model ----
(***************************************************************************)
(* Model of the expense-metrics pipeline of src/financial_app.py:          *)
(* clean_data, check_recurring, calculate_metrics, create_pivot_summary    *)
(* and generate_report.                                                    *)
(*                                                                         *)
(* Floating point values are modelled as exact rationals extended with NaN *)
(* and inf, so that 0/0 is NaN as in numpy.  Text is a sequence of         *)
(* one-character strings.  A table is a record [columns, rows]; a row is a *)
(* function from the column names (plus "index", the pandas index label)   *)
(* to cells.                                                               *)
(***************************************************************************)
EXTENDS Integers, Sequences, FiniteSets, TLC

VARIABLES pc, file_a, file_b, df_a_cleaned, df_b_cleaned, combined_df,
          combined_expenses_df, pivot_summary_df,
          description, keywords, flag

vars == <<pc, file_a, file_b, df_a_cleaned, df_b_cleaned, combined_df,
          combined_expenses_df, pivot_summary_df,
          description, keywords, flag>>

(***************************************************************************)
(* Bounds of the model.                                                    *)
(***************************************************************************)
MaxRows == 3
MaxCleanRows == 2
MaxDescLen == 2
MaxKeywords == 2

(***************************************************************************)
(* Numbers: rationals n/d in lowest terms (d > 0), NaN and +inf.           *)
(***************************************************************************)
Abs(i) == IF i < 0 THEN -i ELSE i

RECURSIVE GCD(_, _)
GCD(a, b) == IF b = 0 THEN a ELSE GCD(b, a % b)

NaN == [k |-> "nan", n |-> 0, d |-> 1]
Inf == [k |-> "inf", n |-> 0, d |-> 1]

Rat(n, d) ==
  LET g == GCD(Abs(n), d)
  IN  IF n = 0 THEN [k |-> "num", n |-> 0, d |-> 1]
      ELSE [k |-> "num", n |-> n \div g, d |-> d \div g]

Num(i) == Rat(i, 1)

isna(x) == x.k = "nan"

\* float addition
Add(x, y) ==
  IF isna(x) \/ isna(y) THEN NaN
  ELSE IF x.k = "inf" \/ y.k = "inf" THEN Inf
  ELSE Rat(x.n * y.d + y.n * x.d, x.d * y.d)

\* Series.abs(), elementwise
abs(x) == IF x.k = "num" THEN Rat(Abs(x.n), x.d) ELSE x

\* float division of a non-negative numerator: 0/0 is NaN, x/0 is inf
Div(x, y) ==
  IF isna(x) \/ isna(y) THEN NaN
  ELSE IF x.k = "inf" THEN (IF y.k = "inf" THEN NaN ELSE Inf)
  ELSE IF y.k = "inf" THEN Num(0)
  ELSE IF y.n = 0 THEN (IF x.n = 0 THEN NaN ELSE Inf)
  ELSE IF y.n > 0 THEN Rat(x.n * y.d, x.d * y.n)
  ELSE Rat(-(x.n * y.d), x.d * (-y.n))

\* x <= y on floats; any comparison with NaN is False
Le(x, y) ==
  /\ ~isna(x) /\ ~isna(y)
  /\ \/ y.k = "inf"
     \/ x.k = "num" /\ y.k = "num" /\ x.n * y.d <= y.n * x.d

Lt(x, y) == Le(x, y) /\ x # y

\* Series.sum(): skipna=True, the sum of an empty series is 0
RECURSIVE SeriesSum(_)
SeriesSum(s) ==
  IF s = <<>> THEN Num(0)
  ELSE IF isna(s[1]) THEN SeriesSum(Tail(s))
  ELSE Add(s[1], SeriesSum(Tail(s)))

\* Series.cumsum(): running total including the current row; a NaN cell
\* stays NaN and is skipped by the running total
RECURSIVE cumsumFrom(_, _)
cumsumFrom(acc, s) ==
  IF s = <<>> THEN <<>>
  ELSE IF isna(s[1]) THEN <<NaN>> \o cumsumFrom(acc, Tail(s))
  ELSE <<Add(acc, s[1])>> \o cumsumFrom(Add(acc, s[1]), Tail(s))

cumsumExclusive(s) ==
  IF s = <<>> THEN <<>> ELSE <<Num(0)>> \o cumsumFrom(Num(0), SubSeq(s, 1, Len(s) - 1))

cumsum(s) == cumsumFrom(Num(0), s)

(***************************************************************************)
(* Configuration.                                                          *)
(***************************************************************************)
\* The configured phrases, abbreviated to two phrases over the model's
\* alphabet that keep the mixed case and the '*' and '.' characters of
\* 'T-MOBILE*AUTO PAY' and 'APPLE.COM/BILL'.
RECURRING_KEYWORDS == << <<"A", "*">>, <<"b", ".">> >>

REQUIRED_COLUMNS ==
  <<"Transaction Date", "Post Date", "Description", "Category", "Type", "Amount">>

FINAL_COLUMNS ==
  REQUIRED_COLUMNS \o
  <<"Recurring Flag", "Cumulative Sum", "% of total", "Cumulative % of total">>

PIVOT_COLUMNS == <<"Category", "Total Amount", "% of Grand Total">>

GrandTotalLabel == "**Grand Total**"

(***************************************************************************)
(* Text.                                                                   *)
(***************************************************************************)
Range(s) == {s[i] : i \in 1..Len(s)}

\* a missing (NaN) text cell
NoText == <<"<NA>">>

\* str.lower(), one character
lowerChar(c) == IF c = "A" THEN "a" ELSE IF c = "B" THEN "b" ELSE c

\* str.lower()
lower(s) == [i \in 1..Len(s) |-> lowerChar(s[i])]

\* the characters re.escape prefixes with a backslash
SpecialChars == {"*", ".", " ", "-", "\\", "+", "?", "(", ")", "[", "]", "|", "^", "$"}

\* the keyword used as a pattern as written
re_escape_identity(s) == s

\* re.escape
RECURSIVE re_escape(_)
re_escape(s) ==
  IF s = <<>> THEN <<>>
  ELSE (IF s[1] \in SpecialChars THEN <<"\\", s[1]>> ELSE <<s[1]>>)
       \o re_escape(Tail(s))

\* Drop the first n characters.
Drop(s, n) == SubSeq(s, n + 1, Len(s))

\* The first element of a pattern: a literal (possibly written with a
\* backslash) or the wildcard '.', and the number of pattern characters
\* it takes.
ElemLen(p) == IF p[1] = "\\" /\ Len(p) >= 2 THEN 2 ELSE 1
ElemMatches(p, c) ==
  IF p[1] = "\\" /\ Len(p) >= 2 THEN c = p[2]
  ELSE IF p[1] = "." THEN TRUE
  ELSE c = p[1]

\* re.compile accepts the pattern: no repeat operator without an operand,
\* no dangling backslash.
RECURSIVE ValidFrom(_, _)
ValidFrom(p, canRepeat) ==
  IF p = <<>> THEN TRUE
  ELSE IF p[1] = "*" THEN canRepeat /\ ValidFrom(Tail(p), FALSE)
  ELSE IF p[1] = "\\" THEN Len(p) >= 2 /\ ValidFrom(Drop(p, 2), TRUE)
  ELSE ValidFrom(Tail(p), TRUE)

\* The pattern matches a prefix of the text.
RECURSIVE MatchHere(_, _)
MatchHere(p, s) ==
  IF p = <<>> THEN TRUE
  ELSE LET n    == ElemLen(p)
           rest == Drop(p, n)
       IN  IF rest # <<>> /\ rest[1] = "*"
           THEN \E k \in 0..Len(s) :
                  /\ \A i \in 1..k : ElemMatches(p, s[i])
                  /\ MatchHere(Tail(rest), Drop(s, k))
           ELSE /\ s # <<>>
                /\ ElemMatches(p, s[1])
                /\ MatchHere(rest, Tail(s))

\* re.search(pattern, text) finds a match at some position (an invalid
\* pattern raises re.error, which re.escape rules out; no match here)
re_search(p, s) ==
  /\ ValidFrom(p, FALSE)
  /\ \E k \in 0..Len(s) : MatchHere(p, Drop(s, k))

\* the for loop of check_recurring, from keyword i on: returns at the
\* first keyword that matches
RECURSIVE KeywordLoop(_, _, _)
KeywordLoop(desc_lower, kws, i) ==
  IF i > Len(kws) THEN 0
  ELSE IF re_search(re_escape(lower(kws[i])), desc_lower) THEN 1
  ELSE KeywordLoop(desc_lower, kws, i + 1)

check_recurring(desc, kws) ==
  IF desc = NoText THEN 0
  ELSE KeywordLoop(lower(desc), kws, 1)

(***************************************************************************)
(* Cells of a raw table and their coercion.                                *)
(***************************************************************************)
Digits == <<"0", "1", "2", "3", "4", "5", "6", "7", "8", "9">>

IsDigit(c) == \E i \in 1..10 : Digits[i] = c
DigitVal(c) == (CHOOSE i \in 1..10 : Digits[i] = c) - 1

RECURSIVE ParseDigits(_, _)
ParseDigits(s, acc) ==
  IF s = <<>> THEN acc ELSE ParseDigits(Tail(s), 10 * acc + DigitVal(s[1]))

AllDigits(s) == s # <<>> /\ \A i \in 1..Len(s) : IsDigit(s[i])

\* pd.to_numeric(cell, errors='coerce') of a text cell: an optionally
\* signed integer literal is its value, any other text is NaN
to_numeric(cell) ==
  IF AllDigits(cell) THEN Num(ParseDigits(cell, 0))
  ELSE IF cell # <<>> /\ cell[1] = "-" /\ AllDigits(Tail(cell))
       THEN Num(-ParseDigits(Tail(cell), 0))
  ELSE IF cell # <<>> /\ cell[1] = "+" /\ AllDigits(Tail(cell))
       THEN Num(ParseDigits(Tail(cell), 0))
  ELSE NaN

\* A date cell is <<year, month, day>> as written in the sheet; NaT is <<>>.
NaT == <<>>

IsLeap(y) == (y % 4 = 0 /\ y % 100 # 0) \/ y % 400 = 0

DaysIn(y, m) ==
  IF m = 2 THEN (IF IsLeap(y) THEN 29 ELSE 28)
  ELSE IF m \in {4, 6, 9, 11} THEN 30 ELSE 31

\* pd.to_datetime(cell, errors='coerce'): a cell that is no calendar date
\* becomes NaT
to_datetime(cell) ==
  IF /\ Len(cell) = 3
     /\ cell[2] \in 1..12
     /\ cell[3] \in 1..DaysIn(cell[1], cell[2])
  THEN cell ELSE NaT

\* .dt.strftime('%m/%d/%y'): <<month, day, two-digit year>>; NaT gives a
\* missing value
strftime(d) == IF d = NaT THEN NaT ELSE <<d[2], d[3], d[1] % 100>>

(***************************************************************************)
(* Tables.  A raw table is [ncols, rows], each row a tuple of ncols cells  *)
(* (headers are overwritten, so they are not kept).  A cleaned table is    *)
(* [columns, rows] or the marker ValueError.                               *)
(***************************************************************************)
ValueError == [columns |-> <<"ValueError">>, rows |-> <<>>]

NoTable == [columns |-> <<>>, rows |-> <<>>]

\* one cleaned row: the cells by canonical name, and the index label
CleanRow(raw, i) ==
  [c \in Range(REQUIRED_COLUMNS) \cup {"index"} |->
     IF c = "index" THEN i
     ELSE IF c = "Transaction Date" THEN strftime(to_datetime(raw[1]))
     ELSE IF c = "Post Date" THEN strftime(to_datetime(raw[2]))
     ELSE IF c = "Description" THEN raw[3]
     ELSE IF c = "Category" THEN raw[4]
     ELSE IF c = "Type" THEN raw[5]
     ELSE to_numeric(raw[6])]

\* a clean_data that lets a bad amount cell raise (errors='raise')
clean_data_raise(df) ==
  IF df.ncols # Len(REQUIRED_COLUMNS) THEN ValueError
  ELSE IF \E i \in 1..Len(df.rows) : isna(to_numeric(df.rows[i][6])) THEN ValueError
  ELSE [columns |-> REQUIRED_COLUMNS,
        rows |-> [i \in 1..Len(df.rows) |-> CleanRow(df.rows[i], i - 1)]]

\* clean_data: assigning 6 names to a table of another width raises
\* ValueError (length mismatch)
clean_data(df) ==
  IF df.ncols # Len(REQUIRED_COLUMNS) THEN ValueError
  ELSE [columns |-> REQUIRED_COLUMNS,
        rows |-> [i \in 1..Len(df.rows) |-> CleanRow(df.rows[i], i - 1)]]

\* pd.concat([a, b], ignore_index=True)
concat(a, b) ==
  [columns |-> a.columns,
   rows |-> [i \in 1..(Len(a.rows) + Len(b.rows)) |->
               [(IF i <= Len(a.rows) THEN a.rows[i] ELSE b.rows[i - Len(a.rows)])
                  EXCEPT !["index"] = i - 1]]]

(***************************************************************************)
(* calculate_metrics.                                                      *)
(***************************************************************************)
Column(rows, c) == [i \in 1..Len(rows) |-> rows[i][c]]

\* the mask Amount < 0
ExpenseMaskStrict(amount) == Lt(amount, Num(0))

\* the mask df['Amount'] <= 0 (False for a missing Amount)
ExpenseMask(amount) == Le(amount, Num(0))

Filter(rows) == SelectSeq(rows, LAMBDA r : ExpenseMask(r["Amount"]))

Orderings(n) == Permutations(1..n)

\* the outcomes of sort_values(by='Amount', ascending=False)
sort_values_descending(rows) ==
  {[i \in 1..Len(rows) |-> rows[p[i]]] : p \in
     {q \in Orderings(Len(rows)) :
        \A i \in 1..(Len(rows) - 1) :
          Le(rows[q[i + 1]]["Amount"], rows[q[i]]["Amount"])}}

\* The outcomes of sort_values(by='Amount', ascending=True).  The default
\* kind is 'quicksort', which does not promise to keep the order of rows
\* with equal keys: every ascending arrangement is a possible outcome.
sort_values(rows) ==
  {[i \in 1..Len(rows) |-> rows[p[i]]] : p \in
     {q \in Orderings(Len(rows)) :
        \A i \in 1..(Len(rows) - 1) :
          Le(rows[q[i]]["Amount"], rows[q[i + 1]]["Amount"])}}

\* the share computed on the signed amount
PercentOfTotalSigned(amount, grand_total_abs) == Div(amount, grand_total_abs)

\* '% of total' of one row
PercentOfTotal(amount, grand_total_abs) == Div(abs(amount), grand_total_abs)

\* the four metric columns added to the sorted rows
WithMetrics(sorted, kws) ==
  LET amounts         == Column(sorted, "Amount")
      grand_total_abs == SeriesSum([i \in 1..Len(sorted) |-> abs(amounts[i])])
      cum             == cumsum(amounts)
      pct             == [i \in 1..Len(sorted) |->
                            PercentOfTotal(amounts[i], grand_total_abs)]
      cumpct          == cumsum(pct)
  IN  [i \in 1..Len(sorted) |->
         [c \in Range(FINAL_COLUMNS) \cup {"index"} |->
            IF c = "Recurring Flag" THEN check_recurring(sorted[i]["Description"], kws)
            ELSE IF c = "Cumulative Sum" THEN cum[i]
            ELSE IF c = "% of total" THEN pct[i]
            ELSE IF c = "Cumulative % of total" THEN cumpct[i]
            ELSE sorted[i][c]]]

\* The possible results of calculate_metrics(df, keywords): one per outcome
\* of the sort.  An empty selection is returned as it is, with the columns
\* of df.
calculate_metrics(df, kws) ==
  LET expenses == Filter(df.rows)
  IN  IF expenses = <<>> THEN {[columns |-> df.columns, rows |-> <<>>]}
      ELSE {[columns |-> FINAL_COLUMNS, rows |-> WithMetrics(sorted, kws)] :
              sorted \in sort_values(expenses)}

(***************************************************************************)
(* create_pivot_summary.                                                   *)
(***************************************************************************)
\* a missing (NaN) category cell
NoCategory == "<NA>"

\* the category labels of the model, in ascending (lexicographic) order
CategoryOrder == <<"Food", "Travel">>

Reverse(s) == [i \in 1..Len(s) |-> s[Len(s) + 1 - i]]

\* group keys in descending order of the label
group_keys_descending(rows) ==
  SelectSeq(Reverse(CategoryOrder), LAMBDA c : \E i \in 1..Len(rows) : rows[i]["Category"] = c)

\* groupby('Category'): the distinct labels present, sorted ascending
\* (sort=True); rows whose key is missing are dropped (dropna=True)
group_keys(rows) ==
  SelectSeq(CategoryOrder, LAMBDA c : \E i \in 1..Len(rows) : rows[i]["Category"] = c)

\* the sum of the magnitudes of one group
group_sum_abs(rows, c) ==
  LET amounts == Column(SelectSeq(rows, LAMBDA r : r["Category"] = c), "Amount")
  IN  SeriesSum([i \in 1..Len(amounts) |-> abs(amounts[i])])

\* ['Amount'].sum() of one group
group_sum(rows, c) ==
  SeriesSum(Column(SelectSeq(rows, LAMBDA r : r["Category"] = c), "Amount"))

PivotRow(cat, total, pct) ==
  [c \in Range(PIVOT_COLUMNS) |->
     IF c = "Category" THEN cat
     ELSE IF c = "Total Amount" THEN total
     ELSE pct]

create_pivot_summary(expenses_df) ==
  IF expenses_df.rows = <<>> \/ expenses_df.columns = <<>>
  THEN [columns |-> PIVOT_COLUMNS, rows |-> <<>>]
  ELSE
    LET keys   == group_keys(expenses_df.rows)
        totals == [i \in 1..Len(keys) |-> group_sum(expenses_df.rows, keys[i])]
        grand_total_abs == SeriesSum([i \in 1..Len(keys) |-> abs(totals[i])])
        pcts   == [i \in 1..Len(keys) |-> Div(abs(totals[i]), grand_total_abs)]
        grand_total_row == PivotRow(GrandTotalLabel, SeriesSum(totals), SeriesSum(pcts))
    IN  [columns |-> PIVOT_COLUMNS,
         rows |-> [i \in 1..Len(keys) |-> PivotRow(keys[i], totals[i], pcts[i])]
                  \o <<grand_total_row>>]

(***************************************************************************)
(* Inputs.                                                                 *)
(***************************************************************************)
SeqsUpTo(S, n) == UNION {[1..m -> S] : m \in 0..n}

ValidDate == <<2024, 2, 29>>

\* amount cells of the report pipeline: two expenses; and a zero amount, an
\* income and an unparsable cell
ExpenseCells == {<<"-", "2">>, <<"-", "1">>}

OtherCells == {<<"0">>, <<"1">>, <<"x">>}

CategoryCells == {"Food", "Travel", NoCategory}

\* a description that holds the first configured phrase in another case
RecurringDescription == <<"a", "*">>

\* the description booked with each category: a recurring merchant under
\* Food, another merchant under Travel, none where the category is missing
DescriptionOf(c) ==
  IF c = "Food" THEN RecurringDescription
  ELSE IF c = "Travel" THEN <<"b">>
  ELSE NoText

\* rows of the two source files: an expense of any category, or a zero,
\* income or unparsable row booked under Food
ReportRows ==
  {<<ValidDate, ValidDate, DescriptionOf(c), c, "Sale", a>> :
     c \in CategoryCells, a \in ExpenseCells}
  \cup
  {<<ValidDate, ValidDate, DescriptionOf("Food"), "Food", "Sale", a>> :
     a \in OtherCells}

RawTable(n, rows) == [ncols |-> n, rows |-> rows]

NoRaw == RawTable(0, <<>>)

(***************************************************************************)
(* generate_report, step by step.                                          *)
(***************************************************************************)
Init ==
  /\ pc = "start"
  /\ file_a \in {RawTable(6, rows) : rows \in SeqsUpTo(ReportRows, MaxRows)}
  /\ file_b \in {RawTable(6, rows) :
                   rows \in SeqsUpTo(ReportRows, MaxRows - Len(file_a.rows))}
  /\ df_a_cleaned = NoTable
  /\ df_b_cleaned = NoTable
  /\ combined_df = NoTable
  /\ combined_expenses_df = NoTable
  /\ pivot_summary_df = NoTable
  /\ description = NoText
  /\ keywords = RECURRING_KEYWORDS
  /\ flag = 0

\* df_a_cleaned = clean_data(df_a_raw.copy())
CleanA ==
  /\ pc = "start"
  /\ df_a_cleaned' = clean_data(file_a)
  /\ pc' = IF df_a_cleaned' = ValueError THEN "error" ELSE "cleaned_a"
  /\ UNCHANGED <<file_a, file_b, df_b_cleaned, combined_df, combined_expenses_df,
                 pivot_summary_df, description, keywords, flag>>

\* df_b_cleaned = clean_data(df_b_raw.copy())
CleanB ==
  /\ pc = "cleaned_a"
  /\ df_b_cleaned' = clean_data(file_b)
  /\ pc' = IF df_b_cleaned' = ValueError THEN "error" ELSE "cleaned_b"
  /\ UNCHANGED <<file_a, file_b, df_a_cleaned, combined_df, combined_expenses_df,
                 pivot_summary_df, description, keywords, flag>>

\* combined_df = pd.concat([df_a_cleaned, df_b_cleaned], ignore_index=True)
Combine ==
  /\ pc = "cleaned_b"
  /\ combined_df' = concat(df_a_cleaned, df_b_cleaned)
  /\ pc' = "combined"
  /\ UNCHANGED <<file_a, file_b, df_a_cleaned, df_b_cleaned, combined_expenses_df,
                 pivot_summary_df, description, keywords, flag>>

\* combined_expenses_df = calculate_metrics(combined_df, RECURRING_KEYWORDS)
CalculateMetrics ==
  /\ pc = "combined"
  /\ combined_expenses_df' \in calculate_metrics(combined_df, keywords)
  /\ pc' = "metrics"
  /\ UNCHANGED <<file_a, file_b, df_a_cleaned, df_b_cleaned, combined_df,
                 pivot_summary_df, description, keywords, flag>>

\* pivot_summary_df = create_pivot_summary(combined_expenses_df)
CreatePivotSummary ==
  /\ pc = "metrics"
  /\ pivot_summary_df' = create_pivot_summary(combined_expenses_df)
  /\ pc' = "done"
  /\ UNCHANGED <<file_a, file_b, df_a_cleaned, df_b_cleaned, combined_df,
                 combined_expenses_df, description, keywords, flag>>

Next == CleanA \/ CleanB \/ Combine \/ CalculateMetrics \/ CreatePivotSummary

Spec == Init /\ [][Next]_vars

(***************************************************************************)
(* clean_data on its own, over tables of any width and with bad cells.     *)
(***************************************************************************)
ColumnCounts == {5, 6, 7}

\* date cells: a leap day, a day that does not exist, a month that does
\* not exist
DateCells == {<<2024, 2, 29>>, <<2023, 2, 29>>, <<1999, 13, 1>>}

PostDateCells == {<<1999, 12, 31>>, <<2023, 2, 29>>}

\* amount cells: numbers as text, text that is no number, an empty cell
RawAmountCells == {<<"-", "1", "2">>, <<"7">>, <<"x">>, <<>>}

RawRows(n) ==
  IF n = 5
  THEN {<<t, q, NoText, "Food", "Sale">> : t \in DateCells, q \in PostDateCells}
  ELSE IF n = 6
  THEN {<<t, q, NoText, "Food", "Sale", a>> :
          t \in DateCells, q \in PostDateCells, a \in RawAmountCells}
  ELSE {<<t, q, NoText, "Food", "Sale", a, "extra">> :
          t \in DateCells, q \in PostDateCells, a \in RawAmountCells}

InitClean ==
  /\ pc = "start"
  /\ file_a \in UNION {{RawTable(n, rows) : rows \in SeqsUpTo(RawRows(n), MaxCleanRows)} :
                         n \in ColumnCounts}
  /\ file_b = NoRaw
  /\ df_a_cleaned = NoTable
  /\ df_b_cleaned = NoTable
  /\ combined_df = NoTable
  /\ combined_expenses_df = NoTable
  /\ pivot_summary_df = NoTable
  /\ description = NoText
  /\ keywords = RECURRING_KEYWORDS
  /\ flag = 0

\* clean_data(df) returns
CleanData ==
  /\ pc = "start"
  /\ clean_data(file_a) # ValueError
  /\ df_a_cleaned' = clean_data(file_a)
  /\ pc' = "cleaned"
  /\ UNCHANGED <<file_a, file_b, df_b_cleaned, combined_df, combined_expenses_df,
                 pivot_summary_df, description, keywords, flag>>

\* clean_data(df) raises
CleanDataRaises ==
  /\ pc = "start"
  /\ clean_data(file_a) = ValueError
  /\ df_a_cleaned' = ValueError
  /\ pc' = "error"
  /\ UNCHANGED <<file_a, file_b, df_b_cleaned, combined_df, combined_expenses_df,
                 pivot_summary_df, description, keywords, flag>>

NextClean == CleanData \/ CleanDataRaises

SpecClean == InitClean /\ [][NextClean]_vars

(***************************************************************************)
(* check_recurring on its own, over descriptions and keyword lists.        *)
(***************************************************************************)
Alphabet == {"a", "A", "*", "."}

Descriptions == SeqsUpTo(Alphabet, MaxDescLen) \cup {NoText}

Letters == {"a", "A"}

\* phrases of one character, and of two characters of which one at least
\* is a letter
Keywords ==
  [1..1 -> Alphabet] \cup
  {k \in [1..2 -> Alphabet] : k[1] \in Letters \/ k[2] \in Letters}

InitMatch ==
  /\ pc = "start"
  /\ description \in Descriptions
  /\ keywords \in SeqsUpTo(Keywords, MaxKeywords)
  /\ flag = 0
  /\ file_a = NoRaw
  /\ file_b = NoRaw
  /\ df_a_cleaned = NoTable
  /\ df_b_cleaned = NoTable
  /\ combined_df = NoTable
  /\ combined_expenses_df = NoTable
  /\ pivot_summary_df = NoTable

\* expenses_df['Description'].apply(check_recurring), one cell
CheckRecurring ==
  /\ pc = "start"
  /\ flag' = check_recurring(description, keywords)
  /\ pc' = "flagged"
  /\ UNCHANGED <<file_a, file_b, df_a_cleaned, df_b_cleaned, combined_df,
                 combined_expenses_df, pivot_summary_df, description, keywords>>

NextMatch == CheckRecurring

SpecMatch == InitMatch /\ [][NextMatch]_vars

(***************************************************************************)
(* Properties.                                                             *)
(***************************************************************************)
MetricsDone == pc \in {"metrics", "done"}

Expenses == combined_expenses_df.rows

Combined == combined_df.rows

\* the integer value of an amount cell of the report pipeline
AmountOf(r) == r["Amount"].n

\* the index labels of the combined rows whose Amount is a number <= 0
RetainedIndex ==
  {i \in 0..(Len(Combined) - 1) :
     Combined[i + 1]["Amount"].k = "num" /\ Combined[i + 1]["Amount"].n <= 0}

\* sums of integers, written out directly
RECURSIVE SumAmounts(_, _)
SumAmounts(rows, i) == IF i = 0 THEN 0 ELSE SumAmounts(rows, i - 1) + AmountOf(rows[i])

RECURSIVE SumAbsAmounts(_, _)
SumAbsAmounts(rows, i) ==
  IF i = 0 THEN 0 ELSE SumAbsAmounts(rows, i - 1) + Abs(AmountOf(rows[i]))

\* the output rows are exactly the retained input rows, each once, in
\* ascending order of Amount
FilteredAndAscending ==
  /\ {Expenses[i]["index"] : i \in 1..Len(Expenses)} = RetainedIndex
  /\ Len(Expenses) = Cardinality(RetainedIndex)
  /\ \A i \in 1..Len(Expenses) : \A c \in Range(REQUIRED_COLUMNS) :
       Expenses[i][c] = Combined[Expenses[i]["index"] + 1][c]
  /\ \A i, j \in 1..Len(Expenses) :
       i < j => AmountOf(Expenses[i]) <= AmountOf(Expenses[j])

\* rows with equal Amount keep the order of the concatenated input
StableOrder ==
  \A i, j \in 1..Len(Expenses) :
    (i < j /\ AmountOf(Expenses[i]) = AmountOf(Expenses[j]))
      => Expenses[i]["index"] < Expenses[j]["index"]

\* C1 (as stated): the rows returned by calculate_metrics are exactly the
\* input rows with Amount <= 0, none lost or duplicated, ascending by Amount,
\* and rows with equal Amount keep their relative order from the
\* concatenated input.
C1_StableSort == MetricsDone => (FilteredAndAscending /\ StableOrder)

\* C1 (amended): the rows returned by calculate_metrics are exactly the input
\* rows with Amount <= 0 (missing and positive amounts excluded), none lost
\* or duplicated, in ascending order of Amount; the relative order of rows
\* with equal Amount is not determined.
C1_FilterAndSort == MetricsDone => FilteredAndAscending

\* a run where the filter dropped a row and the sort moved a later input
\* row in front of an earlier one
C1_Witness ==
  /\ pc = "metrics"
  /\ Len(Expenses) >= 2
  /\ Len(Combined) > Len(Expenses)
  /\ \E i, j \in 1..Len(Expenses) :
       i < j /\ Expenses[i]["index"] > Expenses[j]["index"]
             /\ AmountOf(Expenses[i]) < AmountOf(Expenses[j])

\* C2: in every non-empty output of calculate_metrics, the Cumulative Sum
\* of row i is the sum of Amount over rows 1..i of the output, in its
\* sorted order, current row included.
C2_CumulativeSum ==
  MetricsDone =>
    \A i \in 1..Len(Expenses) :
      Expenses[i]["Cumulative Sum"] = Num(SumAmounts(Expenses, i))

C2_Witness ==
  /\ pc = "metrics"
  /\ Len(Expenses) = 3
  /\ AmountOf(Expenses[1]) < AmountOf(Expenses[2])
  /\ AmountOf(Expenses[2]) < 0
  /\ Expenses[3]["Cumulative Sum"] = Num(SumAmounts(Expenses, 3))

Pivot == pivot_summary_df.rows

\* the category rows of the summary: all rows but the last
CategoryRows == IF Pivot = <<>> THEN <<>> ELSE SubSeq(Pivot, 1, Len(Pivot) - 1)

GrandTotalLast ==
  /\ Pivot[Len(Pivot)]["Category"] = GrandTotalLabel
  /\ \A i \in 1..Len(CategoryRows) : CategoryRows[i]["Category"] # GrandTotalLabel

LabelRank(c) == CHOOSE i \in 1..Len(CategoryOrder) : CategoryOrder[i] = c

\* C3 (as stated): the category rows of the summary are in ascending order
\* of Total Amount, and the Grand Total row comes after them, last.
C3_SortedByTotal ==
  (pc = "done" /\ Pivot # <<>>) =>
    /\ GrandTotalLast
    /\ \A i, j \in 1..Len(CategoryRows) :
         i < j => Le(CategoryRows[i]["Total Amount"], CategoryRows[j]["Total Amount"])

\* C3 (amended): the category rows of the summary are in ascending order of
\* the Category label, whatever their totals, and the Grand Total row comes
\* after them, last.
C3_SortedByLabel ==
  (pc = "done" /\ Pivot # <<>>) =>
    /\ GrandTotalLast
    /\ \A i, j \in 1..Len(CategoryRows) :
         i < j => LabelRank(CategoryRows[i]["Category"])
                    < LabelRank(CategoryRows[j]["Category"])

\* a summary of two categories where the first row has the larger total
C3_Witness ==
  /\ pc = "done"
  /\ Len(Pivot) = 3
  /\ Lt(Pivot[2]["Total Amount"], Pivot[1]["Total Amount"])
  /\ Pivot[3]["Category"] = GrandTotalLabel

\* C4: when at least one row is retained and every retained Amount is 0,
\* calculate_metrics raises or gives 0 for '% of total' and 'Cumulative % of
\* total' on every row, never an undefined value.
C4_ZeroTotalPercentages ==
  (MetricsDone /\ Expenses # <<>> /\ SumAbsAmounts(Expenses, Len(Expenses)) = 0) =>
    \A i \in 1..Len(Expenses) :
      /\ Expenses[i]["% of total"] = Num(0)
      /\ Expenses[i]["Cumulative % of total"] = Num(0)

\* C5: when no combined row has Amount <= 0, calculate_metrics returns no
\* rows but all 10 output columns, and create_pivot_summary returns no rows,
\* its 3 columns and no Grand Total row.
C5_EmptySchemaComplete ==
  (pc = "done" /\ RetainedIndex = {}) =>
    /\ Expenses = <<>>
    /\ combined_expenses_df.columns = FINAL_COLUMNS
    /\ Len(combined_expenses_df.columns) = 10
    /\ pivot_summary_df.columns = PIVOT_COLUMNS
    /\ Pivot = <<>>

CellIsBad(raw) == isna(to_numeric(raw[6]))

RowCountKept ==
  pc = "cleaned" =>
    /\ df_a_cleaned.columns = REQUIRED_COLUMNS
    /\ Len(df_a_cleaned.rows) = Len(file_a.rows)
    /\ \A i \in 1..Len(file_a.rows) :
         /\ CellIsBad(file_a.rows[i]) => isna(df_a_cleaned.rows[i]["Amount"])
         /\ file_a.rows[i][1][2] > 12 => df_a_cleaned.rows[i]["Transaction Date"] = NaT

\* C6 (as stated): clean_data does not fail on an unparsable cell (the cell
\* becomes a missing value, the row is kept) and raises only for a table of
\* fewer than 6 columns; 6 or more columns are accepted.
C6_RaisesOnlyBelowSix ==
  /\ RowCountKept
  /\ pc # "start" => (pc = "error" <=> file_a.ncols < 6)

\* C6 (amended): clean_data does not fail on an unparsable cell (the cell
\* becomes a missing value, the row is kept) and raises exactly when the
\* table does not have exactly 6 columns: fewer and more are both rejected.
C6_RaisesUnlessSix ==
  /\ RowCountKept
  /\ pc # "start" => (pc = "error" <=> file_a.ncols # 6)

\* two rows cleaned, one with an unparsable amount and an impossible date
C6_Witness ==
  /\ pc = "cleaned"
  /\ Len(df_a_cleaned.rows) = 2
  /\ \E i \in 1..2 :
       /\ file_a.rows[i][6] = <<"x">>
       /\ isna(df_a_cleaned.rows[i]["Amount"])
       /\ df_a_cleaned.rows[i]["Post Date"] = NaT
  /\ \E i \in 1..2 : df_a_cleaned.rows[i]["Amount"] = Num(-12)

\* k is a literal contiguous piece of d
Contains(d, k) ==
  \E start \in 0..(Len(d) - Len(k)) :
    \A i \in 1..Len(k) : d[start + i] = k[i]

Permuted(kws, p) == [i \in 1..Len(kws) |-> kws[p[i]]]

\* C7: the flag is 1 exactly when some keyword, lower-cased, is a literal
\* contiguous piece of the lower-cased description ('*' and '.' stand for
\* themselves); a missing description gives 0; permuting the keyword list
\* does not change the flag.
C7_LiteralContainment ==
  pc = "flagged" =>
    /\ flag = IF /\ description # NoText
                 /\ \E k \in 1..Len(keywords) :
                      Contains(lower(description), lower(keywords[k]))
              THEN 1 ELSE 0
    /\ \A p \in Orderings(Len(keywords)) :
         check_recurring(description, Permuted(keywords, p)) = flag

\* the first keyword '.' is not in the description, the second one is, in
\* another case and with its '*'
C7_Witness ==
  /\ pc = "flagged"
  /\ flag = 1
  /\ description = <<"A", "*">>
  /\ keywords = << <<".">>, <<"a", "*">> >>

GrandTotalAbs == SumAbsAmounts(Expenses, Len(Expenses))

\* C8: in every non-empty output of calculate_metrics whose grand total of
\* absolute amounts is > 0, '% of total' is abs(Amount) / grand total,
\* 'Cumulative % of total' of row i is the sum of '% of total' over rows
\* 1..i, it never decreases along the rows, and it is 1 at the last row
\* (in exact arithmetic).
C8_CumulativePercent ==
  (MetricsDone /\ Expenses # <<>> /\ GrandTotalAbs > 0) =>
    /\ \A i \in 1..Len(Expenses) :
         /\ Expenses[i]["% of total"] = Rat(Abs(AmountOf(Expenses[i])), GrandTotalAbs)
         /\ Expenses[i]["Cumulative % of total"]
              = Rat(SumAbsAmounts(Expenses, i), GrandTotalAbs)
    /\ \A i \in 1..(Len(Expenses) - 1) :
         Le(Expenses[i]["Cumulative % of total"], Expenses[i + 1]["Cumulative % of total"])
    /\ Expenses[Len(Expenses)]["Cumulative % of total"] = Num(1)

\* three expenses with shares 2/5, 2/5 and 1/5
C8_Witness ==
  /\ pc = "metrics"
  /\ Len(Expenses) = 3
  /\ Expenses[1]["Cumulative % of total"] = Rat(2, 5)
  /\ Expenses[2]["Cumulative % of total"] = Rat(4, 5)
  /\ Expenses[3]["Cumulative % of total"] = Num(1)

\* the categories present in the expense table
PresentCategories ==
  {Expenses[i]["Category"] : i \in 1..Len(Expenses)} \ {NoCategory}

RowsOf(c) == SelectSeq(Expenses, LAMBDA r : r["Category"] = c)

CategoryTotal(c) == SumAmounts(RowsOf(c), Len(RowsOf(c)))

RECURSIVE SumOver(_, _)
SumOver(S, f) ==
  IF S = {} THEN 0
  ELSE LET c == CHOOSE x \in S : TRUE IN f[c] + SumOver(S \ {c}, f)

SumOfTotals == SumOver(PresentCategories, [c \in PresentCategories |-> CategoryTotal(c)])

SumOfAbsTotals ==
  SumOver(PresentCategories, [c \in PresentCategories |-> Abs(CategoryTotal(c))])

\* C9: for every non-empty expense table the summary has one row per
\* distinct category, with Total Amount the signed sum of that category's
\* Amounts and % of Grand Total abs(Total Amount) over the sum of
\* abs(Total Amount) of all categories (a ratio that is undefined, NaN, when
\* that sum is 0), and exactly one Grand Total row with the sum of the
\* category totals and the sum of the (defined) category percentages; the
\* summary of the filtered rows before sorting and metrics is the same.
C9_CategoryTotals ==
  (pc = "done" /\ Expenses # <<>>) =>
    /\ Len(Pivot) = Cardinality(PresentCategories) + 1
    /\ {CategoryRows[i]["Category"] : i \in 1..Len(CategoryRows)} = PresentCategories
    /\ \A i \in 1..Len(CategoryRows) :
         LET c == CategoryRows[i]["Category"]
         IN  /\ CategoryRows[i]["Total Amount"] = Num(CategoryTotal(c))
             /\ CategoryRows[i]["% of Grand Total"] =
                  IF SumOfAbsTotals > 0
                  THEN Rat(Abs(CategoryTotal(c)), SumOfAbsTotals)
                  ELSE NaN
    /\ GrandTotalLast
    /\ Pivot[Len(Pivot)]["Total Amount"] = Num(SumOfTotals)
    /\ Pivot[Len(Pivot)]["% of Grand Total"] =
         IF SumOfAbsTotals > 0 THEN Rat(SumOfAbsTotals, SumOfAbsTotals) ELSE Num(0)
    /\ pivot_summary_df =
         create_pivot_summary([columns |-> REQUIRED_COLUMNS, rows |-> Filter(Combined)])

\* Food = -3 from two rows and Travel = -2: shares 3/5 and 2/5
C9_Witness ==
  /\ pc = "done"
  /\ Len(Expenses) = 3
  /\ Len(Pivot) = 3
  /\ Pivot[1]["Total Amount"] = Num(-3)
  /\ Pivot[1]["% of Grand Total"] = Rat(3, 5)
  /\ Pivot[2]["Total Amount"] = Num(-2)
  /\ Pivot[3]["Total Amount"] = Num(-5)
  /\ Pivot[3]["% of Grand Total"] = Num(1)

\* C10: for every non-empty expense table, rows with a missing Category
\* included, the Total Amount of the Grand Total row equals the sum of all
\* expense Amounts, the Cumulative Sum of the last expense row.
C10_TotalsAgree ==
  (pc = "done" /\ Expenses # <<>>) =>
    /\ Pivot # <<>>
    /\ Pivot[Len(Pivot)]["Total Amount"] = Expenses[Len(Expenses)]["Cumulative Sum"]

====
